---- MODULE Spec2Model ----
(***************************************************************************)
(* CycloneDX 1.6 export of a resolved lock                                 *)
(* (crates/uv-resolver/src/lock/export/cyclonedx.rs).                      *)
(*                                                                         *)
(* A Rust String is modelled as the sequence of its bytes, so that         *)
(* format!() is concatenation and Vec<String>::sort() is the bytewise      *)
(* lexicographic order.  Option<T> is a sequence of length at most one.    *)
(* PackageName and Version values are represented by their Display text.   *)
(***************************************************************************)
EXTENDS Integers, Sequences, FiniteSets

VARIABLES
    target,        \* the Installable: project_name() and lock().root()
    filtered,      \* the nodes ExportableRequirements::from_lock yields for it
    export,        \* Option<CycloneDxExport>: None until from_lock has run
    sbom,          \* Option<CycloneDxBom>: the document of the last fmt call
    previous,      \* Option<CycloneDxBom>: the document of the fmt call before it
    serialized,    \* what serde_json::to_string_pretty returned in the last fmt
    writer,        \* what the writer returned to each write_str of the last fmt
    output,        \* the pieces that reached the writer in the last fmt call
    result,        \* the fmt::Result of the last fmt call
    clock,         \* the instant the next Timestamp::now() returns
    rng            \* the state of the generator Uuid::new_v4() draws from

vars ==
    <<target, filtered, export, sbom, previous, serialized, writer, output, result,
      clock, rng>>

---------------------------------------------------------------------------
(* Option *)

None == <<>>

Some(x) == <<x>>

---------------------------------------------------------------------------
(* String literals of the source, as bytes *)

\* "@"
AT == <<64>>

\* "unknown"
UNKNOWN == <<117, 110, 107, 110, 111, 119, 110>>

\* "0.0.0"
PLACEHOLDER_VERSION == <<48, 46, 48, 46, 48>>

\* "unknown-project"
UNKNOWN_PROJECT ==
    <<117, 110, 107, 110, 111, 119, 110, 45, 112, 114, 111, 106, 101, 99, 116>>

\* "pkg:pypi/"
PKG_PYPI == <<112, 107, 103, 58, 112, 121, 112, 105, 47>>

\* "urn:uuid:"
URN_UUID == <<117, 114, 110, 58, 117, 117, 105, 100, 58>>

\* "Error serializing SBOM to JSON: "
ERROR_PREFIX ==
    <<69, 114, 114, 111, 114, 32, 115, 101, 114, 105, 97, 108, 105, 122, 105,
      110, 103, 32, 83, 66, 79, 77, 32, 116, 111, 32, 74, 83, 79, 78, 58, 32>>

\* "CycloneDX"
CYCLONEDX == <<67, 121, 99, 108, 111, 110, 101, 68, 88>>

\* "1.6"
SPEC_VERSION == <<49, 46, 54>>

\* "Astral"
ASTRAL == <<65, 115, 116, 114, 97, 108>>

\* "uv"
UV == <<117, 118>>

\* "application"
APPLICATION == <<97, 112, 112, 108, 105, 99, 97, 116, 105, 111, 110>>

\* "library"
LIBRARY == <<108, 105, 98, 114, 97, 114, 121>>

\* "required"
REQUIRED == <<114, 101, 113, 117, 105, 114, 101, 100>>

\* env!("CARGO_PKG_VERSION"): the version of the crate being built, "0.8.0" here
CARGO_PKG_VERSION == <<48, 46, 56, 46, 48>>

---------------------------------------------------------------------------
(* The values the model draws its inputs from *)

\* package names "app" and "lib"
App == <<97, 112, 112>>

Lib == <<108, 105, 98>>

\* version "1"
V1 == <<49>>

\* name and version of a package: PackageId { name, version: Option<Version> }
PackageId(n, v) == [name |-> n, version |-> v]

\* the packages of the lock: the project with a static version, the project
\* with a dynamic (absent) version, and one library
LockPackages ==
    {PackageId(App, Some(V1)), PackageId(App, None), PackageId(Lib, Some(V1))}

\* the largest list of filtered nodes: nodes plus dependency records plus
\* dependent records
MaxGraphSize == 4

\* the last instant of the system clock; it starts at 0 and every reading
\* by Timestamp::now() is later than the one before
MaxInstant == 1

\* the Display text of the errors serde_json may return: "key must be a string"
SerdeErrors ==
    {<<107, 101, 121, 32, 109, 117, 115, 116, 32, 98, 101, 32, 97, 32, 115,
       116, 114, 105, 110, 103>>}

\* to_string_pretty returns Ok(json) or Err(e)
SerdeOutcomes == {<<"Ok">>} \cup {<<"Err", e>> : e \in SerdeErrors}

\* what the writer behind the Formatter returns to the write_str calls of
\* one write! of n pieces: Ok to every call, or Ok to some calls and Err to
\* the next one, after which write! makes no more calls
WriterResponses(n) ==
    {[i \in 1..n |-> "Ok"]}
    \cup {[i \in 1..k |-> IF i < k THEN "Ok" ELSE "Err"] : k \in 1..n}

---------------------------------------------------------------------------
(* Input shapes *)

\* sequences over S of length exactly n
SeqsOfLen(S, n) == [1..n -> S]

\* a Package as the exporter reads it: name(), version(), dependencies
Package(id, deps) ==
    [id |-> id, dependencies |-> [i \in 1..Len(deps) |-> [package_id |-> deps[i]]]]

\* ExportableRequirement { package, dependents }
Node(id, deps, dependents) ==
    [package |-> Package(id, deps), dependents |-> dependents]

\* nodes over the ids S with exactly e dependency and dependent records
NodesWith(S, e) ==
    UNION {{Node(id, ds, us) : id \in S, ds \in SeqsOfLen(S, d),
                               us \in SeqsOfLen(S, e - d)} : d \in 0..e}

\* lists of exactly n nodes over S with at most e records in all
RECURSIVE NodeLists(_, _, _)
NodeLists(S, n, e) ==
    IF n = 0 THEN {<<>>}
    ELSE UNION {{<<nd>> \o rest : nd \in NodesWith(S, k),
                                  rest \in NodeLists(S, n - 1, e - k)} : k \in 0..e}

\* every filtered node list of size at most MaxGraphSize
FilteredLists ==
    UNION {NodeLists(LockPackages, n, MaxGraphSize - n) : n \in 0..MaxGraphSize}

\* an Installable: project_name() is None for workspaces and scripts;
\* lock().root() is the package at the workspace root, if there is one
Target(pn, r) == [project_name |-> pn, root |-> r]

\* a project with a static version, the root package of its lock
Targets == {Target(Some(App), Some(PackageId(App, Some(V1))))}

\* every combination of project name and root package
AllTargets ==
    {Target(pn, r) :
        pn \in {None, Some(App)},
        r \in {None, Some(PackageId(App, None)), Some(PackageId(App, Some(V1)))}}

\* names "app", "app1", "lib" and versions absent, "1", "11"
IdentityNames == {App, App \o V1, Lib}

IdentityVersions == {None, Some(V1), Some(V1 \o V1)}

IdentityPackages == {PackageId(n, v) : n \in IdentityNames, v \in IdentityVersions}

---------------------------------------------------------------------------
(* Identity generator *)

\* format!("pkg:pypi/{}@{}", name, version)
generate_purl(name, version) == PKG_PYPI \o name \o AT \o version

\* generate_bom_ref with the separator left out of the format string
generate_bom_ref_no_separator(name, version) == name \o version

\* format!("{}@{}", name, version)
generate_bom_ref(name, version) == name \o AT \o version

\* version.map(|v| v.to_string()).unwrap_or_else(|| "unknown".to_string())
version_or_unknown(version) == IF version = None THEN UNKNOWN ELSE version[1]

\* the reference build_cyclone_dx_bom recomputes for a package id
id_bom_ref(id) == generate_bom_ref(id.name, version_or_unknown(id.version))

---------------------------------------------------------------------------
(* Component builder and document template *)

create_component(name, version, component_type) ==
    [component_type |-> component_type,
     bom_ref        |-> generate_bom_ref(name, version),
     name           |-> name,
     version        |-> version,
     purl           |-> generate_purl(name, version),
     scope          |-> None,
     hashes         |-> None]

\* the hexadecimal digits
HexDigits == <<48, 49, 50, 51, 52, 53, 54, 55, 56, 57, 97, 98, 99, 100, 101, 102>>

\* Display of the version-4 Uuid whose random bits are zero but the low
\* four, which are u
uuid_to_string(u) ==
    <<48, 48, 48, 48, 48, 48, 48, 48, 45, 48, 48, 48, 48, 45, 52, 48, 48, 48,
      45, 56, 48, 48, 48, 45, 48, 48, 48, 48, 48, 48, 48, 48, 48, 48, 48>>
    \o <<HexDigits[u + 1]>>

\* Display of the Timestamp t seconds after the epoch, t < 10:
\* "1970-01-01T00:00:0" t "Z"
timestamp_to_string(t) ==
    <<49, 57, 55, 48, 45, 48, 49, 45, 48, 49, 84, 48, 48, 58, 48, 48, 58, 48>>
    \o <<HexDigits[t + 1]>> \o <<90>>

\* create_sbom_template with the tool's version taken from the timestamp
create_sbom_template_tool_timestamp(project_name, project_version, uv_version, uuid, now) ==
    [bom_format    |-> CYCLONEDX,
     spec_version  |-> SPEC_VERSION,
     serial_number |-> URN_UUID \o uuid_to_string(uuid),
     version       |-> 1,
     metadata      |->
        [timestamp |-> timestamp_to_string(now),
         tools     |-> <<[vendor |-> ASTRAL, name |-> UV,
                          version |-> timestamp_to_string(now)]>>,
         component |->
            [component_type |-> APPLICATION,
             bom_ref        |-> generate_bom_ref(project_name, project_version),
             name           |-> project_name,
             version        |-> project_version,
             purl           |-> generate_purl(project_name, project_version),
             scope          |-> None,
             hashes         |-> None]],
     components    |-> <<>>,
     dependencies  |-> <<>>]

\* uuid is what Uuid::new_v4() returned, now what Timestamp::now() returned
create_sbom_template(project_name, project_version, uv_version, uuid, now) ==
    [bom_format    |-> CYCLONEDX,
     spec_version  |-> SPEC_VERSION,
     serial_number |-> URN_UUID \o uuid_to_string(uuid),
     version       |-> 1,
     metadata      |->
        [timestamp |-> timestamp_to_string(now),
         tools     |-> <<[vendor |-> ASTRAL, name |-> UV, version |-> uv_version]>>,
         component |->
            [component_type |-> APPLICATION,
             bom_ref        |-> generate_bom_ref(project_name, project_version),
             name           |-> project_name,
             version        |-> project_version,
             purl           |-> generate_purl(project_name, project_version),
             scope          |-> None,
             hashes         |-> None]],
     components    |-> <<>>,
     dependencies  |-> <<>>]

---------------------------------------------------------------------------
(* Vec<String>::sort and Vec::dedup *)

\* a < b in the order of Rust's str: bytewise lexicographic
RECURSIVE str_lt(_, _)
str_lt(a, b) ==
    IF b = <<>> THEN FALSE
    ELSE IF a = <<>> THEN TRUE
    ELSE IF a[1] # b[1] THEN a[1] < b[1]
    ELSE str_lt(Tail(a), Tail(b))

\* x put into the sorted s, after the elements not greater than it
RECURSIVE sort_insert(_, _)
sort_insert(x, s) ==
    IF s = <<>> THEN <<x>>
    ELSE IF str_lt(x, s[1]) THEN <<x>> \o s
    ELSE <<s[1]>> \o sort_insert(x, Tail(s))

\* Vec<String>::sort(): stable, ascending
RECURSIVE sort(_)
sort(s) ==
    IF s = <<>> THEN <<>>
    ELSE sort_insert(s[Len(s)], sort(SubSeq(s, 1, Len(s) - 1)))

\* Vec::dedup(): drops each element equal to the one before it
RECURSIVE dedup(_)
dedup(s) ==
    IF Len(s) <= 1 THEN s
    ELSE IF s[1] = s[2] THEN dedup(Tail(s))
    ELSE <<s[1]>> \o dedup(Tail(s))

---------------------------------------------------------------------------
(* HashMap<String, V> *)

EmptyMap == [k \in {} |-> <<>>]

\* HashMap::insert: the value of an existing key is replaced
map_insert(m, key, value) ==
    [k \in DOMAIN m \cup {key} |-> IF k = key THEN value ELSE m[k]]

\* HashMap::get(key).cloned().unwrap_or_default() for Vec values
map_get_or_default(m, key) == IF key \in DOMAIN m THEN m[key] ELSE <<>>

\* HashMap::get(key).cloned() : Option<V>
map_get(m, key) == IF key \in DOMAIN m THEN Some(m[key]) ELSE None

---------------------------------------------------------------------------
(* build_cyclone_dx_bom *)

\* the BOM reference of a filtered node
node_bom_ref(node) == id_bom_ref(node.package.id)

\* self.nodes.iter().any(|n| generate_bom_ref(n) == dep_bom_ref)
in_filtered_set(nodes, dep_bom_ref) ==
    \E i \in 1..Len(nodes) : node_bom_ref(nodes[i]) = dep_bom_ref

\* collect_depends_on without the membership test
RECURSIVE collect_depends_on_unfiltered(_, _)
collect_depends_on_unfiltered(nodes, dependencies) ==
    IF dependencies = <<>> THEN <<>>
    ELSE <<id_bom_ref(dependencies[1].package_id)>>
         \o collect_depends_on_unfiltered(nodes, Tail(dependencies))

\* the inner loop over package.dependencies: the references of the
\* dependencies that are in the filtered set, in declaration order
RECURSIVE collect_depends_on(_, _)
collect_depends_on(nodes, dependencies) ==
    IF dependencies = <<>> THEN <<>>
    ELSE LET dep_bom_ref == id_bom_ref(dependencies[1].package_id)
             rest == collect_depends_on(nodes, Tail(dependencies))
         IN IF in_filtered_set(nodes, dep_bom_ref)
            THEN <<dep_bom_ref>> \o rest
            ELSE rest

\* the inner loop over node.dependents: bom_ref pushed once for every
\* dependent whose reference is the root's
RECURSIVE collect_root_edges(_, _, _)
collect_root_edges(dependents, bom_ref, root_bom_ref) ==
    IF dependents = <<>> THEN <<>>
    ELSE (IF id_bom_ref(dependents[1]) = root_bom_ref THEN <<bom_ref>> ELSE <<>>)
         \o collect_root_edges(Tail(dependents), bom_ref, root_bom_ref)

\* the loops skipping nothing
is_root_never(bom_ref, root_bom_ref) == FALSE

\* whether the loops skip a node: its reference is the root's
is_root(bom_ref, root_bom_ref) == bom_ref = root_bom_ref

\* one iteration of the first loop over self.nodes; acc holds
\* component_scopes, dependency_map, root_depends_on and sbom.components
process_node(nodes, node, root_bom_ref, acc) ==
    LET name    == node.package.id.name
        version == version_or_unknown(node.package.id.version)
        bom_ref == generate_bom_ref(name, version)
    IN IF is_root(bom_ref, root_bom_ref) THEN acc
       ELSE LET scopes == map_insert(acc.component_scopes, bom_ref, REQUIRED)
                depends_on == collect_depends_on(nodes, node.package.dependencies)
                component == [create_component(name, version, LIBRARY)
                                 EXCEPT !.scope = map_get(scopes, bom_ref)]
            IN [component_scopes |-> scopes,
                dependency_map   |-> map_insert(acc.dependency_map, bom_ref, depends_on),
                root_depends_on  |-> acc.root_depends_on
                                     \o collect_root_edges(node.dependents, bom_ref,
                                                           root_bom_ref),
                components       |-> Append(acc.components, component)]

\* the first loop over self.nodes, nodes 1..i processed
RECURSIVE process_nodes(_, _, _)
process_nodes(nodes, i, root_bom_ref) ==
    IF i = 0
    THEN [component_scopes |-> EmptyMap, dependency_map |-> EmptyMap,
          root_depends_on |-> <<>>, components |-> <<>>]
    ELSE process_node(nodes, nodes[i], root_bom_ref,
                      process_nodes(nodes, i - 1, root_bom_ref))

\* root_dependency without the sort before dedup
root_dependency_unsorted(root_bom_ref, root_depends_on) ==
    [reference |-> root_bom_ref, depends_on |-> dedup(root_depends_on)]

\* the root dependency entry
root_dependency(root_bom_ref, root_depends_on) ==
    [reference |-> root_bom_ref, depends_on |-> dedup(sort(root_depends_on))]

\* package_dependencies without the skip of the root project
RECURSIVE package_dependencies_no_skip(_, _, _, _)
package_dependencies_no_skip(nodes, i, root_bom_ref, dependency_map) ==
    IF i = 0 THEN <<>>
    ELSE Append(package_dependencies_no_skip(nodes, i - 1, root_bom_ref, dependency_map),
                [reference  |-> node_bom_ref(nodes[i]),
                 depends_on |-> map_get_or_default(dependency_map,
                                                   node_bom_ref(nodes[i]))])

\* the second loop over self.nodes, nodes 1..i processed: one Dependency
\* per node that is not the root, its list read back from dependency_map
RECURSIVE package_dependencies(_, _, _, _)
package_dependencies(nodes, i, root_bom_ref, dependency_map) ==
    IF i = 0 THEN <<>>
    ELSE LET before == package_dependencies(nodes, i - 1, root_bom_ref, dependency_map)
             bom_ref == node_bom_ref(nodes[i])
         IN IF is_root(bom_ref, root_bom_ref) THEN before
            ELSE Append(before,
                        [reference  |-> bom_ref,
                         depends_on |-> map_get_or_default(dependency_map, bom_ref)])

build_cyclone_dx_bom(self, uuid, now) ==
    LET template == create_sbom_template(self.project_name, self.project_version,
                                         self.uv_version, uuid, now)
        root_bom_ref == generate_bom_ref(self.project_name, self.project_version)
        acc == process_nodes(self.nodes, Len(self.nodes), root_bom_ref)
    IN [template EXCEPT
          !.components = acc.components,
          !.dependencies =
              <<root_dependency(root_bom_ref, acc.root_depends_on)>>
              \o package_dependencies(self.nodes, Len(self.nodes),
                                      generate_bom_ref(self.project_name,
                                                       self.project_version),
                                      acc.dependency_map)]

---------------------------------------------------------------------------
(* extract_project_metadata and from_lock *)

\* extract_project_metadata with the version looked up whether or not the
\* target has a project name
extract_project_metadata_flat(t) ==
    <<IF t.project_name # None THEN t.project_name[1] ELSE UNKNOWN_PROJECT,
      IF t.root # None /\ t.root[1].version # None THEN t.root[1].version[1]
      ELSE PLACEHOLDER_VERSION>>

extract_project_metadata(t) ==
    IF t.project_name # None
    THEN IF t.root # None
         THEN <<t.project_name[1],
                IF t.root[1].version # None THEN t.root[1].version[1]
                ELSE PLACEHOLDER_VERSION>>
         ELSE <<t.project_name[1], PLACEHOLDER_VERSION>>
    ELSE <<UNKNOWN_PROJECT, PLACEHOLDER_VERSION>>

\* the value from_lock returns inside Ok
from_lock(t, nodes) ==
    LET metadata == extract_project_metadata(t)
    IN [nodes           |-> nodes,
        project_name    |-> metadata[1],
        project_version |-> metadata[2],
        uv_version      |-> CARGO_PKG_VERSION]

---------------------------------------------------------------------------
(* serde_json::to_string_pretty: the JSON value the derive(Serialize)     *)
(* attributes produce, members in declaration order under their wire      *)
(* names, a None scope or hashes left out                                  *)

JString(s) == <<"string", s>>

JNumber(n) == <<"number", n>>

JArray(a) == <<"array", a>>

JObject(members) == <<"object", members>>

\* Hash { alg, content }
hash_to_json(h) ==
    JObject(<<<<"alg", JString(h.alg)>>, <<"content", JString(h.content)>>>>)

\* scope: Option<String>; a None option is skipped (skip_serializing_if)
scope_member(option) ==
    IF option = None THEN <<>> ELSE <<<<"scope", JString(option[1])>>>>

\* hashes: Option<Vec<Hash>>; a None option is skipped (skip_serializing_if)
hashes_member(option) ==
    IF option = None THEN <<>>
    ELSE <<<<"hashes",
             JArray([i \in 1..Len(option[1]) |-> hash_to_json(option[1][i])])>>>>

component_to_json(c) ==
    JObject(<<<<"type", JString(c.component_type)>>,
              <<"bom-ref", JString(c.bom_ref)>>,
              <<"name", JString(c.name)>>,
              <<"version", JString(c.version)>>,
              <<"purl", JString(c.purl)>>>>
            \o scope_member(c.scope)
            \o hashes_member(c.hashes))

tool_to_json(t) ==
    JObject(<<<<"vendor", JString(t.vendor)>>,
              <<"name", JString(t.name)>>,
              <<"version", JString(t.version)>>>>)

dependency_to_json(d) ==
    JObject(<<<<"ref", JString(d.reference)>>,
              <<"dependsOn",
                JArray([i \in 1..Len(d.depends_on) |-> JString(d.depends_on[i])])>>>>)

bom_to_json(b) ==
    JObject(<<<<"bomFormat", JString(b.bom_format)>>,
              <<"specVersion", JString(b.spec_version)>>,
              <<"serialNumber", JString(b.serial_number)>>,
              <<"version", JNumber(b.version)>>,
              <<"metadata",
                JObject(<<<<"timestamp", JString(b.metadata.timestamp)>>,
                          <<"tools",
                            JArray([i \in 1..Len(b.metadata.tools) |->
                                        tool_to_json(b.metadata.tools[i])])>>,
                          <<"component", component_to_json(b.metadata.component)>>>>)>>,
              <<"components",
                JArray([i \in 1..Len(b.components) |->
                            component_to_json(b.components[i])])>>,
              <<"dependencies",
                JArray([i \in 1..Len(b.dependencies) |->
                            dependency_to_json(b.dependencies[i])])>>>>)

\* the pieces the write! of the match arm taken hands to the writer, one
\* write_str call each: the JSON for write!(f, "{}", json); the literal and
\* the Display of e for write!(f, "Error serializing SBOM to JSON: {}", e)
fmt_pieces(document, outcome) ==
    IF outcome[1] = "Ok" THEN <<bom_to_json(document)>>
    ELSE <<ERROR_PREFIX, outcome[2]>>

\* write!(f, ...): the pieces reach the writer in order until it returns
\* Err to one; the result is Err(fmt::Error) then, and Ok when it took all
RECURSIVE write(_, _)
write(responses, pieces) ==
    IF pieces = <<>> THEN [result |-> "Ok", written |-> <<>>]
    ELSE IF responses[1] = "Err" THEN [result |-> "Err", written |-> <<>>]
    ELSE LET rest == write(Tail(responses), Tail(pieces))
         IN [result |-> rest.result, written |-> <<pieces[1]>> \o rest.written]

\* fmt returning the serializer's error instead of writing it
fmt_propagating(document, outcome, responses) ==
    IF outcome[1] = "Ok" THEN write(responses, <<bom_to_json(document)>>)
    ELSE [result |-> "Err", written |-> <<>>]

\* Display::fmt after the document is built: the match on the serializer's
\* outcome, each arm returning what its write! returns
fmt(document, outcome, responses) ==
    write(responses, fmt_pieces(document, outcome))

---------------------------------------------------------------------------
(* The state machine *)

Init ==
    /\ target \in Targets
    /\ filtered \in FilteredLists
    /\ export = None
    /\ sbom = None
    /\ previous = None
    /\ serialized = None
    /\ writer = None
    /\ output = None
    /\ result = None
    /\ clock = 0
    /\ rng = 0

\* CycloneDxExport::from_lock
FromLock ==
    /\ export = None
    /\ export' = Some(from_lock(target, filtered))
    /\ UNCHANGED <<target, filtered, sbom, previous, serialized, writer, output, result,
                 clock, rng>>

\* <CycloneDxExport as Display>::fmt
Fmt ==
    /\ export # None
    /\ clock <= MaxInstant
    /\ \E document \in {build_cyclone_dx_bom(export[1], rng, clock)} :
          \E outcome \in SerdeOutcomes :
             \E responses \in WriterResponses(Len(fmt_pieces(document, outcome))) :
                \E returned \in {fmt(document, outcome, responses)} :
                   /\ sbom' = Some(document)
                   /\ serialized' = Some(outcome[1])
                   /\ writer' = Some(responses)
                   /\ output' = Some(returned.written)
                   /\ result' = Some(returned.result)
    /\ previous' = sbom
    /\ clock' = clock + 1
    /\ rng' = (rng + 1) % 16
    /\ UNCHANGED <<target, filtered, export>>

Next == FromLock \/ Fmt

Spec == Init /\ [][Next]_vars

\* The same machine started from every kind of target and from lists of two
\* nodes without edges, over names and versions chosen so that one text is
\* a prefix of another
InitIdentity ==
    /\ target \in AllTargets
    /\ filtered \in NodeLists(IdentityPackages, 2, 0)
    /\ export = None
    /\ sbom = None
    /\ previous = None
    /\ serialized = None
    /\ writer = None
    /\ output = None
    /\ result = None
    /\ clock = 0
    /\ rng = 0

SpecIdentity == InitIdentity /\ [][Next]_vars

---------------------------------------------------------------------------
(* Properties *)

\* the elements of a sequence
Range(s) == {s[i] : i \in DOMAIN s}

\* the last document built, and the exporter it was built from
Doc == sbom[1]

Self == export[1]

\* the root component's reference in the last document
RootRef == Doc.metadata.component.bom_ref

\* the references of the nodes of a list, in order
NodeRefs(nodes) == [i \in 1..Len(nodes) |-> node_bom_ref(nodes[i])]

\* the nodes of a list whose reference is not r, in order
NonRootNodes(nodes, r) ==
    LET NotRoot(n) == node_bom_ref(n) # r IN SelectSeq(nodes, NotRoot)

\* the references a node declares as dependencies, restricted to those of
\* the nodes of the list, in declaration order
Projection(nodes, node) ==
    LET declared == [i \in 1..Len(node.package.dependencies) |->
                        id_bom_ref(node.package.dependencies[i].package_id)]
        Kept(r) == r \in Range(NodeRefs(nodes))
    IN SelectSeq(declared, Kept)

\* a strictly ascending sequence of strings
StrictlyAscending(s) == \A i \in 1..(Len(s) - 1) : str_lt(s[i], s[i + 1])

\* C1 (graph closure): every reference in the dependsOn list of every
\* dependency entry of a built document is the root component's bom-ref or
\* the bom-ref of an entry of the components list.
GraphClosure ==
    sbom # None =>
        \A d \in Range(Doc.dependencies) :
            \A r \in Range(d.depends_on) :
                \/ r = RootRef
                \/ \E c \in Range(Doc.components) : c.bom_ref = r

\* A document in which one component entry kept a declared dependency and a
\* node declared a dependency that is not in the filtered list.
GraphClosureWitness ==
    /\ sbom # None
    /\ \E i \in 2..Len(Doc.dependencies) : Doc.dependencies[i].depends_on # <<>>
    /\ \E n \in Range(NonRootNodes(Self.nodes, RootRef)) :
          \E i \in DOMAIN n.package.dependencies :
              id_bom_ref(n.package.dependencies[i].package_id)
                  \notin Range(NodeRefs(Self.nodes))

\* C2 (root exclusion): the root component has type application and no
\* scope, no entry of components carries the root's bom-ref, and every
\* entry of components has type library and scope required.
RootExclusion ==
    sbom # None =>
        /\ Doc.metadata.component.component_type = APPLICATION
        /\ Doc.metadata.component.scope = None
        /\ \A c \in Range(Doc.components) :
              /\ c.bom_ref # RootRef
              /\ c.component_type = LIBRARY
              /\ c.scope = Some(REQUIRED)

\* A document built from a list that holds the root's name@version twice
\* and another package, which is emitted.
RootExclusionWitness ==
    /\ sbom # None
    /\ \E i, j \in DOMAIN Self.nodes :
          /\ i # j
          /\ node_bom_ref(Self.nodes[i]) = RootRef
          /\ node_bom_ref(Self.nodes[j]) = RootRef
    /\ Doc.components # <<>>

\* C3 (dependency-list shape): dependencies has len(components) + 1
\* entries, the first with the root's ref, the (i+1)-th with the bom-ref of
\* the i-th component, and the components are the non-root nodes in the
\* order supplied.
DependencyShape ==
    sbom # None =>
        /\ Len(Doc.dependencies) = Len(Doc.components) + 1
        /\ Doc.dependencies[1].reference = RootRef
        /\ \A i \in DOMAIN Doc.components :
              Doc.dependencies[i + 1].reference = Doc.components[i].bom_ref
        /\ [i \in DOMAIN Doc.components |-> Doc.components[i].bom_ref]
              = NodeRefs(NonRootNodes(Self.nodes, RootRef))

\* A document with two components of different references built from a
\* list that also holds the root's own node before the last of them.
DependencyShapeWitness ==
    /\ sbom # None
    /\ Len(Doc.components) = 2
    /\ Doc.components[1].bom_ref # Doc.components[2].bom_ref
    /\ \E i \in 1..(Len(Self.nodes) - 1) : node_bom_ref(Self.nodes[i]) = RootRef

\* C4 (root edges): the root entry's dependsOn is strictly ascending in
\* bytewise lexicographic order and, as a set, is the set of references of
\* the non-root nodes that record a dependent whose recomputed reference is
\* the root's.
RootEdges ==
    sbom # None =>
        /\ StrictlyAscending(Doc.dependencies[1].depends_on)
        /\ Range(Doc.dependencies[1].depends_on)
              = {node_bom_ref(n) : n \in
                    {m \in Range(NonRootNodes(Self.nodes, RootRef)) :
                        \E i \in DOMAIN m.dependents :
                            id_bom_ref(m.dependents[i]) = RootRef}}

\* A document whose root entry lists two references that the node list
\* supplied in descending order.
RootEdgesWitness ==
    /\ sbom # None
    /\ Len(Doc.dependencies[1].depends_on) = 2
    /\ \E i, j \in DOMAIN Self.nodes :
          /\ i < j
          /\ str_lt(node_bom_ref(Self.nodes[j]), node_bom_ref(Self.nodes[i]))
          /\ node_bom_ref(Self.nodes[i]) \in Range(Doc.dependencies[1].depends_on)
          /\ node_bom_ref(Self.nodes[j]) \in Range(Doc.dependencies[1].depends_on)

\* C5 (per-node filtered projection): for every non-root node of the list,
\* the dependency entry at its position has dependsOn equal to the node's
\* own declared dependencies restricted to the filtered list, in declared
\* order and with repetitions, also when nodes share a name and version.
PerNodeProjection ==
    sbom # None =>
        LET nodes == NonRootNodes(Self.nodes, RootRef)
        IN \A i \in DOMAIN nodes :
              /\ i + 1 \in DOMAIN Doc.dependencies
              /\ Doc.dependencies[i + 1].depends_on = Projection(Self.nodes, nodes[i])

\* C6 (BOM-reference identity): two packages that differ in name or in
\* version (present or absent) get different references, an absent version
\* reads as "unknown", and every purl is "pkg:pypi/" followed by the
\* reference.
BomRefIdentity ==
    sbom # None =>
        /\ \A i, j \in DOMAIN Self.nodes :
              Self.nodes[i].package.id # Self.nodes[j].package.id
                  => node_bom_ref(Self.nodes[i]) # node_bom_ref(Self.nodes[j])
        /\ \A i \in DOMAIN Self.nodes :
              Self.nodes[i].package.id.version = None
                  => node_bom_ref(Self.nodes[i])
                        = Self.nodes[i].package.id.name \o AT \o UNKNOWN
        /\ \A c \in Range(Doc.components) \cup {Doc.metadata.component} :
              /\ c.bom_ref = c.name \o AT \o c.version
              /\ c.purl = PKG_PYPI \o c.bom_ref

\* A document built from "app" at version "11" and "app1" at version "1",
\* both emitted.
BomRefIdentityWitness ==
    /\ sbom # None
    /\ Len(Doc.components) = 2
    /\ Self.nodes[1].package.id = PackageId(App, Some(V1 \o V1))
    /\ Self.nodes[2].package.id = PackageId(App \o V1, Some(V1))

\* the fields of a document other than serialNumber and metadata.timestamp
StableFields(b) ==
    [bom_format   |-> b.bom_format,
     spec_version |-> b.spec_version,
     version      |-> b.version,
     tools        |-> b.metadata.tools,
     component    |-> b.metadata.component,
     components   |-> b.components,
     dependencies |-> b.dependencies]

\* C7 (determinism of export): two runs of fmt on the same exporter build
\* documents that agree on every field other than serialNumber and
\* metadata.timestamp.
ExportDeterminism ==
    (sbom # None /\ previous # None) => StableFields(previous[1]) = StableFields(Doc)

\* Two documents of one exporter that differ in serial number and in
\* timestamp and carry components and a non-empty dependsOn list.
ExportDeterminismWitness ==
    /\ sbom # None
    /\ previous # None
    /\ previous[1].serial_number # Doc.serial_number
    /\ previous[1].metadata.timestamp # Doc.metadata.timestamp
    /\ Len(Doc.components) >= 2
    /\ \E d \in Range(Doc.dependencies) : Len(d.depends_on) >= 2

\* whether the lock's root package has a resolvable version
RootHasVersion == target.root # None /\ target.root[1].version # None

\* C8 (project identity fallback chain), as claimed: the name is the
\* target's project name or "unknown-project", and the version is the root
\* package's version whenever it has one, else "0.0.0", whether or not the
\* target has a project name.
FallbackChainIndependent ==
    export # None =>
        /\ Self.project_name
              = (IF target.project_name # None THEN target.project_name[1]
                 ELSE UNKNOWN_PROJECT)
        /\ Self.project_version
              = (IF RootHasVersion THEN target.root[1].version[1]
                 ELSE PLACEHOLDER_VERSION)

\* C8, amended: the version is the root package's version only when the
\* target has a project name and the root package has a version; in every
\* other case, a root version without a project name included, it is
\* "0.0.0".
FallbackChainNested ==
    export # None =>
        /\ Self.project_name
              = (IF target.project_name # None THEN target.project_name[1]
                 ELSE UNKNOWN_PROJECT)
        /\ Self.project_version
              = (IF target.project_name # None /\ RootHasVersion
                 THEN target.root[1].version[1]
                 ELSE PLACEHOLDER_VERSION)

\* An exporter constructed for a target without a project name whose lock
\* has a root package with a version.
FallbackChainWitness ==
    /\ export # None
    /\ target.project_name = None
    /\ RootHasVersion

\* C9 (never-fail rendering): no fmt call returns an error because of the
\* serializer: fmt returns Err exactly when the Formatter's writer returned
\* Err to a write_str call, whatever the serializer returned.  When the
\* writer takes every piece, the output after a successful serialization is
\* the JSON of the document, and after a failed one it is "Error
\* serializing SBOM to JSON: " followed by the serializer's message.
NeverFailRendering ==
    result # None =>
        /\ result = Some("Err") <=> "Err" \in Range(writer[1])
        /\ ("Err" \notin Range(writer[1]) /\ serialized = Some("Ok"))
              => output = Some(<<bom_to_json(Doc)>>)
        /\ ("Err" \notin Range(writer[1]) /\ serialized = Some("Err")) =>
              /\ Len(output[1]) = 2
              /\ output[1][1] = ERROR_PREFIX
              /\ output[1][2] \in SerdeErrors

\* A fmt call whose serialization failed, whose writer took both pieces,
\* and which returned Ok with the error text as output.
NeverFailRenderingWitness ==
    /\ result = Some("Ok")
    /\ serialized = Some("Err")
    /\ writer = Some(<<"Ok", "Ok">>)
    /\ Len(output[1]) = 2
    /\ Doc.components # <<>>

\* C10 (root-reference self-consistency): when the lock has a root
\* package, the root reference of the document is the reference recomputed
\* for that package, with or without a version; so no component carries
\* the root package's reference and every node recording the root package
\* as a dependent is in the root entry's dependsOn.
RootSelfConsistency ==
    (sbom # None /\ target.project_name # None /\ target.root # None) =>
        LET root_package_ref == id_bom_ref(target.root[1])
        IN /\ RootRef = root_package_ref
           /\ \A c \in Range(Doc.components) : c.bom_ref # root_package_ref
           /\ \A n \in Range(Self.nodes) :
                 (/\ node_bom_ref(n) # root_package_ref
                  /\ \E i \in DOMAIN n.dependents :
                        id_bom_ref(n.dependents[i]) = root_package_ref)
                     => node_bom_ref(n) \in Range(Doc.dependencies[1].depends_on)

====
